---- MODULE Spec2Model ----
(***************************************************************************)
(* WiseDataCat: parquet schema -> PostgreSQL DDL conversion and the        *)
(* create-and-load workflow (wise_data_cat/parquet_to_postgres.py,         *)
(* parquet_to_postgres_loader.py, simple_converter.py).                    *)
(*                                                                         *)
(* Text is modelled as TLA+ strings; TLC evaluates Len, SubSeq and \o on   *)
(* strings, so the Python string operations are computed character by     *)
(* character.                                                              *)
(***************************************************************************)
EXTENDS Integers, Sequences, FiniteSets, TLC

VARIABLES
    \* ---- TypeMapper calls
    mapSystem,      \* which mapper is called ("none" before a call is set up)
    mapToken,       \* the source type token passed to it
    mapResult,      \* [done |-> BOOLEAN, value |-> the returned target type]
    \* ---- DDLGenerator calls
    genCall,        \* [source_type, lowercase_columns, columns, dtypes]
    genResult,      \* [done |-> BOOLEAN, sql |-> the CREATE TABLE text]
    \* ---- IndexAdvisor calls
    advCall,        \* [fn, columns]
    advResult,      \* [done |-> BOOLEAN, columns |-> columns that got an index statement]
    \* ---- create-and-load workflow (ParquetToPostgresLoader)
    job,            \* arguments of load_parquet_to_postgres and the environment it runs in
    pc,             \* position of the run in the loader's code
    db,             \* committed state of the target database
    tx,             \* the open target transaction (view of the connection in use)
    tempFile,       \* the temporary CSV file of load_data_copy
    loc,            \* local variables of the running strategy / index step
    events,         \* history: the external calls of the run, in order, with their outcome
    error,          \* the exception that ended the run ("" while there is none)
    exitStatus      \* process exit status of main(): -1 while running

mapVars == <<mapSystem, mapToken, mapResult>>
genVars == <<genCall, genResult>>
advVars == <<advCall, advResult>>
runVars == <<job, pc, db, tx, tempFile, loc, events, error, exitStatus>>
pureVars == <<mapVars, genVars, advVars>>
vars == <<pureVars, runVars>>

-----------------------------------------------------------------------------
(* Python string operations used by the sources *)

TableName == "taxi_trips"

LowerLetters == "abcdefghijklmnopqrstuvwxyz"
UpperLetters == "ABCDEFGHIJKLMNOPQRSTUVWXYZ"

Char(s, i) == SubSeq(s, i, i)

\* one character of str.upper()
UpperChar(c) ==
    IF \E i \in 1..Len(LowerLetters) : Char(LowerLetters, i) = c
    THEN Char(UpperLetters, CHOOSE i \in 1..Len(LowerLetters) : Char(LowerLetters, i) = c)
    ELSE c

\* one character of str.lower()
LowerChar(c) ==
    IF \E i \in 1..Len(UpperLetters) : Char(UpperLetters, i) = c
    THEN Char(LowerLetters, CHOOSE i \in 1..Len(UpperLetters) : Char(UpperLetters, i) = c)
    ELSE c

RECURSIVE Upper(_)
\* str.upper()
Upper(s) ==
    IF Len(s) = 0 THEN "" ELSE UpperChar(Char(s, 1)) \o Upper(SubSeq(s, 2, Len(s)))

RECURSIVE Lower(_)
\* str.lower()
Lower(s) ==
    IF Len(s) = 0 THEN "" ELSE LowerChar(Char(s, 1)) \o Lower(SubSeq(s, 2, Len(s)))

\* str.find(c) for a one-character c, 1-based; 0 when c does not occur
Find(s, c) ==
    IF \E i \in 1..Len(s) : Char(s, i) = c
    THEN CHOOSE i \in 1..Len(s) : Char(s, i) = c /\ \A j \in 1..(i - 1) : Char(s, j) # c
    ELSE 0

\* s.split(c)[0]: the text before the first c, all of s when c does not occur
SplitHead(s, c) == IF Find(s, c) = 0 THEN s ELSE SubSeq(s, 1, Find(s, c) - 1)

\* s[s.find(c):] for a c that occurs in s
FromFirst(s, c) == SubSeq(s, Find(s, c), Len(s))

\* p in s
Contains(s, p) == \E i \in 0..(Len(s) - Len(p)) : SubSeq(s, i + 1, i + Len(p)) = p

\* s.startswith(p)
StartsWith(s, p) == Len(p) <= Len(s) /\ SubSeq(s, 1, Len(p)) = p

EndsWith(s, p) == Len(p) <= Len(s) /\ SubSeq(s, Len(s) - Len(p) + 1, Len(s)) = p

RECURSIVE LStrip(_)
LStrip(s) ==
    IF Len(s) > 0 /\ Char(s, 1) = " " THEN LStrip(SubSeq(s, 2, Len(s))) ELSE s

RECURSIVE RStrip(_)
RStrip(s) ==
    IF Len(s) > 0 /\ Char(s, Len(s)) = " " THEN RStrip(SubSeq(s, 1, Len(s) - 1)) ELSE s

\* str.strip()
Strip(s) == RStrip(LStrip(s))

\* dict.get(key, default)
Get(d, key, default) == IF key \in DOMAIN d THEN d[key] ELSE default

RECURSIVE Join(_, _)
\* sep.join(parts)
Join(sep, parts) ==
    IF Len(parts) = 0 THEN ""
    ELSE IF Len(parts) = 1 THEN parts[1]
    ELSE parts[1] \o sep \o Join(sep, Tail(parts))

-----------------------------------------------------------------------------
(* TypeMapper: the mapping tables *)

DUCKDB_TO_POSTGRES ==
    [k \in {"INTEGER", "BIGINT", "SMALLINT", "TINYINT", "DOUBLE", "REAL", "FLOAT",
            "DECIMAL", "NUMERIC", "VARCHAR", "CHAR", "TEXT", "STRING", "TIMESTAMP",
            "TIMESTAMPTZ", "DATE", "TIME", "BOOLEAN", "BOOL", "BLOB", "BYTEA",
            "UUID", "JSON", "JSONB"} |->
        CASE k = "TINYINT" -> "SMALLINT"
          [] k = "DOUBLE"  -> "DOUBLE PRECISION"
          [] k = "FLOAT"   -> "REAL"
          [] k = "STRING"  -> "TEXT"
          [] k = "BOOL"    -> "BOOLEAN"
          [] k = "BLOB"    -> "BYTEA"
          [] k = "JSON"    -> "JSONB"
          [] OTHER         -> k]

ARROW_TO_POSTGRES ==
    [k \in {"int8", "int16", "int32", "int64", "uint8", "uint16", "uint32", "uint64",
            "float", "double", "string", "large_string", "binary", "large_binary",
            "bool", "date32", "date64", "timestamp", "time32", "time64"} |->
        CASE k \in {"int8", "int16", "uint8"}       -> "SMALLINT"
          [] k \in {"int32", "uint16"}              -> "INTEGER"
          [] k \in {"int64", "uint32", "uint64"}    -> "BIGINT"
          [] k = "float"                            -> "REAL"
          [] k = "double"                           -> "DOUBLE PRECISION"
          [] k \in {"string", "large_string"}       -> "TEXT"
          [] k \in {"binary", "large_binary"}       -> "BYTEA"
          [] k = "bool"                             -> "BOOLEAN"
          [] k \in {"date32", "date64"}             -> "DATE"
          [] k = "timestamp"                        -> "TIMESTAMP"
          [] k \in {"time32", "time64"}             -> "TIME"]

\* type_mapping of ParquetToPostgresLoader.create_table_from_parquet
loader_type_mapping ==
    [k \in {"INTEGER", "BIGINT", "SMALLINT", "TINYINT", "DOUBLE", "REAL", "FLOAT",
            "DECIMAL", "NUMERIC", "VARCHAR", "CHAR", "TEXT", "STRING", "TIMESTAMP",
            "TIMESTAMPTZ", "DATE", "TIME", "BOOLEAN", "BOOL", "BLOB", "UUID", "JSON"} |->
        CASE k = "TINYINT" -> "SMALLINT"
          [] k = "DOUBLE"  -> "DOUBLE PRECISION"
          [] k = "FLOAT"   -> "REAL"
          [] k = "VARCHAR" -> "TEXT"
          [] k = "STRING"  -> "TEXT"
          [] k = "BOOL"    -> "BOOLEAN"
          [] k = "BLOB"    -> "BYTEA"
          [] k = "JSON"    -> "JSONB"
          [] OTHER         -> k]

\* type_mapping of simple_converter.duckdb_relation_to_postgres_sql
simple_type_mapping ==
    [k \in {"INTEGER", "BIGINT", "SMALLINT", "TINYINT", "DOUBLE", "REAL", "FLOAT",
            "DECIMAL", "NUMERIC", "VARCHAR", "CHAR", "TEXT", "STRING", "TIMESTAMP",
            "TIMESTAMPTZ", "DATE", "TIME", "BOOLEAN", "BOOL", "BLOB", "UUID", "JSON"} |->
        CASE k = "TINYINT" -> "SMALLINT"
          [] k = "DOUBLE"  -> "DOUBLE PRECISION"
          [] k = "FLOAT"   -> "REAL"
          [] k = "STRING"  -> "TEXT"
          [] k = "BOOL"    -> "BOOLEAN"
          [] k = "BLOB"    -> "BYTEA"
          [] k = "JSON"    -> "JSONB"
          [] OTHER         -> k]

-----------------------------------------------------------------------------
(* TypeMapper: the mapping functions *)

\* ParquetToPostgres._map_duckdb_type
map_duckdb_type(duckdb_type) ==
    LET base_type     == SplitHead(Upper(duckdb_type), "(")
        postgres_type == Get(DUCKDB_TO_POSTGRES, base_type, duckdb_type)
    IN  IF Contains(duckdb_type, "(") /\ base_type \in {"DECIMAL", "NUMERIC", "VARCHAR", "CHAR"}
        THEN postgres_type \o FromFirst(duckdb_type, "(")
        ELSE postgres_type

\* ParquetToPostgres._map_arrow_type
map_arrow_type(type_str) ==
    IF StartsWith(type_str, "timestamp")
    THEN IF Contains(type_str, "tz=") THEN "TIMESTAMPTZ" ELSE "TIMESTAMP"
    ELSE IF StartsWith(type_str, "decimal")
    THEN Upper(type_str)
    ELSE Get(ARROW_TO_POSTGRES, SplitHead(type_str, "["), "TEXT")

\* the dtype standardisation loop of ParquetToPostgres.from_pandas_dataframe
standardize_pandas_dtype(dtype) ==
    IF Contains(dtype, "int")
    THEN IF Contains(dtype, "64") THEN "BIGINT" ELSE "INTEGER"
    ELSE IF Contains(dtype, "float")    THEN "DOUBLE"
    ELSE IF Contains(dtype, "bool")     THEN "BOOLEAN"
    ELSE IF Contains(dtype, "datetime") THEN "TIMESTAMP"
    ELSE IF Contains(dtype, "object")   THEN "VARCHAR"
    ELSE "TEXT"

\* the pandas branch of ParquetToPostgres._generate_create_table
map_other_type(dtype) == Get(DUCKDB_TO_POSTGRES, Upper(dtype), dtype)

\* pandas dtype -> target type: from_pandas_dataframe, then _generate_create_table
map_pandas_type(dtype) == map_other_type(standardize_pandas_dtype(dtype))

\* the per-column type mapping of ParquetToPostgresLoader.create_table_from_parquet
loader_map_type(described_type) ==
    LET col_type      == Upper(described_type)
        base_type     == SplitHead(col_type, "(")
        postgres_type == Get(loader_type_mapping, base_type, col_type)
    IN  IF Contains(col_type, "(") /\ base_type \in {"DECIMAL", "NUMERIC"}
        THEN postgres_type \o FromFirst(col_type, "(")
        ELSE postgres_type

\* the per-column type mapping of simple_converter.duckdb_relation_to_postgres_sql
simple_map_type(dtype) == Get(simple_type_mapping, Upper(dtype), dtype)

-----------------------------------------------------------------------------
(* Inputs of the TypeMapper calls *)

DuckDBTokens ==
    {"INTEGER", "integer", "BIGINT", "DOUBLE", "FLOAT", "VARCHAR", "BOOLEAN", "DATE",
     "TIMESTAMP", "TIMESTAMPTZ", "TIMESTAMP WITH TIME ZONE", "TIMESTAMP_NS", "JSON",
     "DECIMAL(10,2)", "decimal(10,2)", "Numeric(5)", "NUMERIC(18,4)",
     "VARCHAR(10)", "varchar(10)", "CHAR(5)", "Char(3)",
     "HUGEINT", "INTEGER[]", "STRUCT(a INTEGER)", "Geometry", "DECIMAL"}

ArrowTokens ==
    {"int32", "int64", "double", "string", "bool", "date32[day]", "time64[us]",
     "timestamp[us]", "timestamp[ns]", "timestamp[us, tz=UTC]",
     "timestamp[ms, tz=Europe/Paris]", "decimal128(10, 2)", "list<item: int32>",
     "halffloat", "large_string", "dictionary<values=string, indices=int32, ordered=0>"}

PandasDtypes ==
    {"int64", "int32", "Int64", "uint8", "float64", "float32", "bool", "boolean",
     "datetime64[ns]", "datetime64[ns, UTC]", "object", "category", "string",
     "timedelta64[ns]"}

MapSystems == {"duckdb", "arrow", "pandas", "loader", "simple"}

TokensOf(system) ==
    CASE system = "arrow"  -> ArrowTokens
      [] system = "pandas" -> PandasDtypes
      [] OTHER             -> DuckDBTokens

\* the mapping table a system looks base types up in
TableOf(system) ==
    CASE system = "arrow"  -> ARROW_TO_POSTGRES
      [] system = "loader" -> loader_type_mapping
      [] system = "simple" -> simple_type_mapping
      [] OTHER             -> DUCKDB_TO_POSTGRES

-----------------------------------------------------------------------------
(* DDLGenerator *)

Min(a, b) == IF a <= b THEN a ELSE b

\* ParquetToPostgres._clean_column_name
clean_column_name(col_name, lowercase_columns) ==
    IF lowercase_columns THEN Lower(Strip(col_name)) ELSE Strip(col_name)

\* the source_type branch of ParquetToPostgres._generate_create_table
map_by_source_type(dtype, source_type) ==
    IF source_type = "duckdb" THEN map_duckdb_type(dtype)
    ELSE IF source_type = "arrow" THEN map_arrow_type(dtype)
    ELSE map_other_type(dtype)

\* the CREATE TABLE text all three generators emit around their column definitions
create_table_text(table_name, column_definitions) ==
    "CREATE TABLE " \o table_name \o " (\n" \o Join(",\n", column_definitions) \o "\n);"

\* mutant of generate_create_table: the column definitions come out last column first
generate_create_table_reversed(columns, dtypes, table_name, source_type, lowercase_columns) ==
    LET n == Min(Len(columns), Len(dtypes))
        column_definitions ==
            [i \in 1..n |->
                "    " \o clean_column_name(columns[n + 1 - i], lowercase_columns) \o " "
                       \o map_by_source_type(dtypes[n + 1 - i], source_type)]
    IN  create_table_text(table_name, column_definitions)

\* ParquetToPostgres._generate_create_table; zip() stops at the shorter list
generate_create_table(columns, dtypes, table_name, source_type, lowercase_columns) ==
    LET column_definitions ==
            [i \in 1..Min(Len(columns), Len(dtypes)) |->
                "    " \o clean_column_name(columns[i], lowercase_columns) \o " "
                       \o map_by_source_type(dtypes[i], source_type)]
    IN  create_table_text(table_name, column_definitions)

\* ParquetToPostgres.from_pandas_dataframe
from_pandas_dataframe(columns, dtypes, table_name, lowercase_columns) ==
    generate_create_table(columns,
                          [i \in 1..Len(dtypes) |-> standardize_pandas_dtype(dtypes[i])],
                          table_name, "pandas", lowercase_columns)

\* simple_converter.duckdb_relation_to_postgres_sql
duckdb_relation_to_postgres_sql(columns, dtypes, table_name) ==
    LET column_definitions ==
            [i \in 1..Min(Len(columns), Len(dtypes)) |->
                "    " \o columns[i] \o " " \o simple_map_type(dtypes[i])]
    IN  create_table_text(table_name, column_definitions)

\* the column definitions built by ParquetToPostgresLoader.create_table_from_parquet
\* from the rows of DESCRIBE, each row a <<column name, column type>> pair
loader_column_definitions(relation) ==
    [i \in 1..Len(relation) |->
        "    " \o relation[i][1] \o " " \o loader_map_type(relation[i][2])]

\* create_sql of ParquetToPostgresLoader.create_table_from_parquet
loader_create_sql(relation, table_name) ==
    create_table_text(table_name, loader_column_definitions(relation))

-----------------------------------------------------------------------------
(* IndexAdvisor *)

datetime_patterns == {"datetime", "timestamp", "date", "time", "created", "updated"}
id_patterns == {"id", "key", "code"}

\* the patterns ParquetToPostgresLoader.create_suggested_indexes tests
loader_datetime_patterns == {"datetime", "timestamp", "date", "time"}
loader_id_patterns == {"id", "key", "code"}

\* any(pattern in col_lower for pattern in patterns)
AnyPatternIn(col_lower, patterns) == \E pattern \in patterns : Contains(col_lower, pattern)

\* the CREATE INDEX statement both advisors format (the converter appends ";")
index_statement(table_name, col) ==
    "CREATE INDEX idx_" \o table_name \o "_" \o Lower(col) \o " ON " \o table_name
        \o "(" \o col \o ")"

\* whether ParquetToPostgres.generate_sample_indexes appends a statement for col
sample_index_candidate(col) ==
    LET col_lower == Lower(col)
    IN  IF AnyPatternIn(col_lower, datetime_patterns) THEN TRUE
        ELSE AnyPatternIn(col_lower, id_patterns)

RECURSIVE sample_indexes(_, _, _)
\* the list `indexes` of ParquetToPostgres.generate_sample_indexes, one entry per
\* statement, each remembering the position of the column it was made for
sample_indexes(columns, table_name, lowercase_columns) ==
    IF Len(columns) = 0 THEN <<>>
    ELSE LET n    == Len(columns)
             col  == columns[n]
             rest == sample_indexes(SubSeq(columns, 1, n - 1), table_name, lowercase_columns)
         IN  IF sample_index_candidate(col)
             THEN Append(rest,
                    [position |-> n,
                     sql |-> index_statement(table_name,
                                 clean_column_name(col, lowercase_columns)) \o ";"])
             ELSE rest

\* the text ParquetToPostgres.generate_sample_indexes returns
generate_sample_indexes(columns, table_name, lowercase_columns) ==
    LET indexes == sample_indexes(columns, table_name, lowercase_columns)
    IN  IF Len(indexes) > 0
        THEN "\n-- Suggested indexes:\n"
                 \o Join("\n", [i \in 1..Len(indexes) |-> indexes[i].sql])
        ELSE "\n-- No obvious index candidates found"

\* whether ParquetToPostgresLoader.create_suggested_indexes executes a CREATE INDEX
\* for col_name
loader_index_candidate(col_name) ==
    LET col_lower == Lower(col_name)
    IN  IF AnyPatternIn(col_lower, loader_datetime_patterns) THEN TRUE
        ELSE AnyPatternIn(col_lower, loader_id_patterns) /\ col_lower # "id"

-----------------------------------------------------------------------------
(* The create-and-load workflow: jobs and the state they start in *)

MaxRows == 5
MaxBatch == 3

\* default of the batch_size parameter of load_data_batch_insert, which
\* load_parquet_to_postgres never overrides
DefaultBatchSize == 10000

Methods == {"direct", "copy", "batch", "stream"}

ConnStrings ==
    {"postgresql://u:p@h:5432/d", "postgres://u:p@h:5432/d", "host=h dbname=d",
     "dbname=d application_name=postgresql://"}

\* what DESCRIBE SELECT * FROM '<parquet_file>' returns: <<column name, column type>> rows
SourceSchemas ==
    { << <<"tpep_pickup_datetime", "TIMESTAMP">>, <<"fare_amount", "DOUBLE">>,
         <<"id", "INTEGER">> >>,
      << <<"VendorID", "INTEGER">>, <<"created_at", "TIMESTAMP">>,
         <<"zip_code", "VARCHAR">> >>,
      << <<"order_date", "DATE">>, <<"event_time", "TIMESTAMP">> >> }

\* the rows of the parquet file, in file order
SourceRows(j) == [i \in 1..j.parquet_rows |-> i]

\* what happened to the parquet file between create_table_from_parquet and the
\* load_data_* method, which reads it again
SourceChanges == {"none", "reordered", "column_dropped", "column_added"}

RECURSIVE Reverse(_)
Reverse(seq) == IF seq = <<>> THEN <<>> ELSE Append(Reverse(Tail(seq)), Head(seq))

\* what DESCRIBE / SELECT * on the parquet file return when the load_data_* method runs
SchemaAtLoad(j) ==
    CASE j.source_change = "reordered"      -> Reverse(j.parquet_schema)
      [] j.source_change = "column_dropped" -> SubSeq(j.parquet_schema, 1, Len(j.parquet_schema) - 1)
      [] j.source_change = "column_added"   -> Append(j.parquet_schema, <<"tip_amount", "DOUBLE">>)
      [] OTHER                              -> j.parquet_schema

\* the columns of a SELECT * on a relation, in order, as the target names them
SelectStar(relation) == [i \in 1..Len(relation) |-> Lower(relation[i][1])]

\* a table of the target: its columns, its rows in insertion order, its indexes, and
\* layouts, the source column lists whose values its rows were filled from, position
\* by position
NoTable == [exists |-> FALSE, columns |-> <<>>, rows |-> <<>>, indexes |-> {}, layouts |-> {}]

\* a table left in the target by an earlier run
LegacyTable ==
    [exists |-> TRUE, columns |-> <<"legacy">>, rows |-> <<0>>,
     indexes |-> {"idx_" \o TableName \o "_legacy"}, layouts |-> {<<"legacy">>}]

\* the table CREATE TABLE makes: PostgreSQL folds the unquoted column names to lower case
NewTable(relation) ==
    [exists |-> TRUE, columns |-> [i \in 1..Len(relation) |-> Lower(relation[i][1])],
     rows |-> <<>>, indexes |-> {}, layouts |-> {}]

NoTx == [open |-> FALSE, failed |-> FALSE, view |-> NoTable]

NoFile == [created |-> FALSE, exists |-> FALSE, content |-> <<>>, columns |-> <<>>]

NoLocals ==
    [relation |-> <<>>, create_sql |-> "", row_count |-> 0, total_rows |-> 0,
     columns |-> <<>>, offset |-> 0, batch_data |-> <<>>, progress |-> <<>>,
     batches |-> <<>>, reported_total |-> -1, catalog |-> <<>>, idx_pos |-> 0,
     indexes_created |-> 0, own_ok |-> {}]

\* main() -> load_parquet_to_postgres, or load_parquet_to_postgres called as a library
WorkflowJobs ==
    [entry : {"load_parquet_to_postgres"}, parquet_schema : SourceSchemas,
     parquet_rows : 0..MaxRows, method : Methods, drop_if_exists : BOOLEAN,
     create_indexes : BOOLEAN, batch_size : {DefaultBatchSize},
     pg_conn_str : ConnStrings, table_existed : BOOLEAN, source_change : {"none"}]

\* runs during which the parquet file is replaced after the DDL step
ChangedSourceJobs ==
    [entry : {"load_parquet_to_postgres"}, parquet_schema : SourceSchemas,
     parquet_rows : 0..MaxRows, method : {"direct", "copy", "batch"},
     drop_if_exists : {TRUE}, create_indexes : {FALSE}, batch_size : {DefaultBatchSize},
     pg_conn_str : {"postgresql://u:p@h:5432/d"}, table_existed : {FALSE},
     source_change : SourceChanges \ {"none"}]

\* load_data_batch_insert called as a library with its own batch_size, on the
\* table a create_table_from_parquet call made
BatchJobs ==
    [entry : {"load_data_batch_insert"}, parquet_schema : SourceSchemas,
     parquet_rows : 0..MaxRows, method : {"batch"}, drop_if_exists : {FALSE},
     create_indexes : {FALSE}, batch_size : 1..MaxBatch,
     pg_conn_str : {"postgresql://u:p@h:5432/d"}, table_existed : {FALSE},
     source_change : {"none"}]

IdleJob ==
    [entry |-> "none", parquet_schema |-> <<>>, parquet_rows |-> 0, method |-> "copy",
     drop_if_exists |-> FALSE, create_indexes |-> FALSE, batch_size |-> DefaultBatchSize,
     pg_conn_str |-> "", table_existed |-> FALSE, source_change |-> "none"]

\* the target database before the run
InitialDb(j) ==
    IF j.entry = "load_data_batch_insert" THEN NewTable(j.parquet_schema)
    ELSE IF j.table_existed THEN LegacyTable
    ELSE NoTable

RunInit ==
    /\ job \in WorkflowJobs \cup ChangedSourceJobs \cup BatchJobs
    /\ pc = IF job.entry = "load_data_batch_insert" THEN "batch_count" ELSE "describe"
    /\ db = InitialDb(job)
    /\ tx = NoTx
    /\ tempFile = NoFile
    /\ loc = NoLocals
    /\ events = <<>>
    /\ error = ""
    /\ exitStatus = -1

RunIdle ==
    /\ job = IdleJob
    /\ pc = "idle"
    /\ db = NoTable
    /\ tx = NoTx
    /\ tempFile = NoFile
    /\ loc = NoLocals
    /\ events = <<>>
    /\ error = ""
    /\ exitStatus = -1

-----------------------------------------------------------------------------
(* How a step of the run ends *)

Event(op, ok, arg) == [op |-> op, ok |-> ok, arg |-> arg]

\* an exception leaves the function: the psycopg connection context rolls the open
\* transaction back and closes, `finally` closes the DuckDB connection, and main()
\* reports the error and exits with status 1
Raise(err) ==
    /\ pc' = "Failed"
    /\ error' = err
    /\ exitStatus' = 1
    /\ tx' = NoTx
    /\ UNCHANGED <<job, db, tempFile, loc, pureVars>>

\* the external call op raises err
Fail(op, arg, err) ==
    /\ events' = Append(events, Event(op, FALSE, arg))
    /\ Raise(err)

\* the run goes on at next after the external calls and log lines evts
Continue(evts, next) ==
    /\ events' = events \o evts
    /\ pc' = next
    /\ UNCHANGED <<job, error, exitStatus, pureVars>>

\* the external call op succeeds and the run goes on at next
Ok(op, arg, next) == Continue(<< Event(op, TRUE, arg) >>, next)

\* the log line with which each load_data_* method ends
LogLoaded == Event("log_loaded", TRUE, "")

\* a step without an external call
Goto(next) ==
    /\ pc' = next
    /\ UNCHANGED <<job, events, error, exitStatus, pureVars>>

-----------------------------------------------------------------------------
(* ParquetToPostgresLoader.create_table_from_parquet *)

\* mutant of DescribeSchema: a failed DESCRIBE is swallowed and the run goes on
DescribeSchemaSwallowed ==
    /\ pc = "describe"
    /\ \/ /\ Ok("describe", "", "ddl_connect")
          /\ loc' = [loc EXCEPT !.relation = job.parquet_schema,
                                !.create_sql = loader_create_sql(job.parquet_schema, TableName)]
          /\ UNCHANGED <<db, tx, tempFile>>
       \/ /\ Continue(<< Event("describe", FALSE, "") >>, "ddl_connect")
          /\ UNCHANGED <<db, tx, tempFile, loc>>

\* mutant of DescribeSchema: the old table is dropped before the source is read
DescribeSchemaAfterDrop ==
    /\ pc = "describe"
    /\ \/ /\ Ok("describe", "", "ddl_connect")
          /\ loc' = [loc EXCEPT !.relation = job.parquet_schema,
                                !.create_sql = loader_create_sql(job.parquet_schema, TableName)]
          /\ UNCHANGED <<db, tx, tempFile>>
       \/ /\ events' = Append(events, Event("describe", FALSE, ""))
          /\ pc' = "Failed"
          /\ error' = "IOException"
          /\ exitStatus' = 1
          /\ db' = IF job.drop_if_exists THEN NoTable ELSE db
          /\ UNCHANGED <<job, tx, tempFile, loc, pureVars>>

\* DESCRIBE SELECT * FROM '<parquet_file>', then the column definitions and create_sql
DescribeSchema ==
    /\ pc = "describe"
    /\ \/ /\ Ok("describe", "", "ddl_connect")
          /\ loc' = [loc EXCEPT !.relation = job.parquet_schema,
                                !.create_sql = loader_create_sql(job.parquet_schema, TableName)]
          /\ UNCHANGED <<db, tx, tempFile>>
       \/ Fail("describe", "", "IOException")

\* with psycopg.connect(self.pg_conn_str) as pg_conn
DDLConnect ==
    /\ pc = "ddl_connect"
    /\ \/ /\ Ok("ddl_connect", "", "ddl_drop")
          /\ tx' = [open |-> TRUE, failed |-> FALSE, view |-> db]
          /\ UNCHANGED <<db, tempFile, loc>>
       \/ Fail("ddl_connect", "", "OperationalError")

\* mutant of DDLDrop: the table is dropped whatever drop_if_exists says
DDLDropAlways ==
    /\ pc = "ddl_drop"
    /\ \/ /\ Ok("drop_table", "", "ddl_create")
          /\ tx' = [tx EXCEPT !.view = NoTable]
          /\ UNCHANGED <<db, tempFile, loc>>
       \/ Fail("drop_table", "", "OperationalError")

\* if drop_if_exists: cur.execute("DROP TABLE IF EXISTS ...")
DDLDrop ==
    /\ pc = "ddl_drop"
    /\ \/ /\ job.drop_if_exists
          /\ Ok("drop_table", "", "ddl_create")
          /\ tx' = [tx EXCEPT !.view = NoTable]
          /\ UNCHANGED <<db, tempFile, loc>>
       \/ /\ job.drop_if_exists
          /\ Fail("drop_table", "", "OperationalError")
       \/ /\ ~job.drop_if_exists
          /\ Goto("ddl_create")
          /\ UNCHANGED <<db, tx, tempFile, loc>>

\* cur.execute(create_sql)
DDLCreate ==
    /\ pc = "ddl_create"
    /\ \/ /\ tx.view.exists
          /\ Fail("create_table", "", "DuplicateTable")
       \/ /\ ~tx.view.exists
          /\ Ok("create_table", "", "ddl_commit")
          /\ tx' = [tx EXCEPT !.view = NewTable(loc.relation)]
          /\ UNCHANGED <<db, tempFile, loc>>
       \/ /\ ~tx.view.exists
          /\ Fail("create_table", "", "ProgrammingError")

\* pg_conn.commit(), the end of the connection context, return full_sql
DDLCommit ==
    /\ pc = "ddl_commit"
    /\ \/ /\ Ok("ddl_commit", "", "dispatch")
          /\ db' = tx.view
          /\ tx' = NoTx
          /\ UNCHANGED <<tempFile, loc>>
       \/ Fail("ddl_commit", "", "OperationalError")

-----------------------------------------------------------------------------
(* ParquetToPostgresLoader.load_parquet_to_postgres, step 2: the method branches *)

\* mutant of Dispatch: a method that is none of the three falls through to the
\* chunked insert
DispatchDefaultsToBatch ==
    /\ pc = "dispatch"
    /\ \/ /\ job.method = "direct"
          /\ Goto("direct_install")
       \/ /\ job.method = "copy"
          /\ Goto("copy_tempfile")
       \/ /\ job.method \notin {"direct", "copy"}
          /\ Goto("batch_count")
    /\ UNCHANGED <<db, tx, tempFile, loc>>

Dispatch ==
    /\ pc = "dispatch"
    /\ \/ /\ job.method = "direct"
          /\ Goto("direct_install")
          /\ UNCHANGED <<db, tx, tempFile, loc>>
       \/ /\ job.method = "copy"
          /\ Goto("copy_tempfile")
          /\ UNCHANGED <<db, tx, tempFile, loc>>
       \/ /\ job.method = "batch"
          /\ Goto("batch_count")
          /\ UNCHANGED <<db, tx, tempFile, loc>>
       \/ /\ job.method \notin {"direct", "copy", "batch"}
          /\ Raise("ValueError")
          /\ UNCHANGED events

-----------------------------------------------------------------------------
(* ParquetToPostgresLoader.load_data_direct_duckdb *)

\* INSTALL postgres; LOAD postgres
DirectInstall ==
    /\ pc = "direct_install"
    /\ \/ /\ Ok("install_extension", "", "direct_check")
          /\ UNCHANGED <<db, tx, tempFile, loc>>
       \/ Fail("install_extension", "", "IOException")

\* mutant of DirectCheck: a connection string DuckDB cannot attach makes the
\* method fall back to the CSV copy
DirectCheckFallsBackToCopy ==
    /\ pc = "direct_check"
    /\ \/ /\ Contains(job.pg_conn_str, "postgresql://")
          /\ Goto("direct_attach")
       \/ /\ ~Contains(job.pg_conn_str, "postgresql://")
          /\ Goto("copy_tempfile")
    /\ UNCHANGED <<db, tx, tempFile, loc>>

\* if "postgresql://" in self.pg_conn_str ... else raise ValueError
DirectCheck ==
    /\ pc = "direct_check"
    /\ \/ /\ Contains(job.pg_conn_str, "postgresql://")
          /\ Goto("direct_attach")
          /\ UNCHANGED <<db, tx, tempFile, loc>>
       \/ /\ ~Contains(job.pg_conn_str, "postgresql://")
          /\ Raise("ValueError")
          /\ UNCHANGED events

\* ATTACH '<pg_conn_str>' AS postgres_db (TYPE POSTGRES)
DirectAttach ==
    /\ pc = "direct_attach"
    /\ \/ /\ Ok("attach", "", "direct_insert")
          /\ UNCHANGED <<db, tx, tempFile, loc>>
       \/ Fail("attach", "", "IOException")

\* INSERT INTO postgres_db.<table> SELECT * FROM '<parquet_file>': one statement,
\* committed by DuckDB when it ends
\* DuckDB binds SELECT * to the table's columns by position and rejects a SELECT
\* list whose length is not the table's number of columns
DirectInsert ==
    /\ pc = "direct_insert"
    /\ \/ /\ Len(SchemaAtLoad(job)) = Len(db.columns)
          /\ Continue(<< Event("insert_select", TRUE, ""), LogLoaded >>, "load_returned")
          /\ db' = [db EXCEPT !.rows = @ \o SourceRows(job),
                              !.layouts = IF SourceRows(job) = <<>> THEN @
                                          ELSE @ \cup {SelectStar(SchemaAtLoad(job))}]
          /\ loc' = [loc EXCEPT !.reported_total = Len(SourceRows(job))]
          /\ UNCHANGED <<tx, tempFile>>
       \/ /\ Len(SchemaAtLoad(job)) = Len(db.columns)
          /\ Fail("insert_select", "", "IOException")
       \/ /\ Len(SchemaAtLoad(job)) # Len(db.columns)
          /\ Fail("insert_select", "", "BinderException")

-----------------------------------------------------------------------------
(* ParquetToPostgresLoader.load_data_copy *)

\* COPY (SELECT * FROM ...) TO '<csv_path>' (HEADER ..., DELIMITER ',', QUOTE '"'):
\* the lines DuckDB writes, one CSV record per row after an optional header line
csv_export(rows, header) ==
    (IF header THEN << [header |-> TRUE, row |-> 0] >> ELSE << >>)
        \o [i \in 1..Len(rows) |-> [header |-> FALSE, row |-> rows[i]]]

\* COPY <table> FROM STDIN WITH CSV: every line of the input becomes a row
csv_import(lines) == [i \in 1..Len(lines) |-> lines[i].row]

\* mutant of CopyTempfile: the export is left out, the count query comes next
CopyTempfileThenCount ==
    /\ pc = "copy_tempfile"
    /\ \/ /\ Ok("create_tempfile", "", "copy_count")
          /\ tempFile' = [created |-> TRUE, exists |-> TRUE, content |-> <<>>,
                          columns |-> <<>>]
          /\ UNCHANGED <<db, tx, loc>>
       \/ Fail("create_tempfile", "", "OSError")

\* tempfile.NamedTemporaryFile(mode="w+", suffix=".csv", delete=False)
CopyTempfile ==
    /\ pc = "copy_tempfile"
    /\ \/ /\ Ok("create_tempfile", "", "copy_export")
          /\ tempFile' = [created |-> TRUE, exists |-> TRUE, content |-> <<>>,
                          columns |-> <<>>]
          /\ UNCHANGED <<db, tx, loc>>
       \/ Fail("create_tempfile", "", "OSError")

\* conn.execute("COPY (SELECT * FROM '<parquet_file>') TO '<csv_path>' ...")
CopyExport ==
    /\ pc = "copy_export"
    /\ \/ /\ Ok("export_csv", "", "copy_count")
          /\ tempFile' = [tempFile EXCEPT !.content = csv_export(SourceRows(job), FALSE),
                                          !.columns = SelectStar(SchemaAtLoad(job))]
          /\ UNCHANGED <<db, tx, loc>>
       \/ Fail("export_csv", "", "IOException")

\* row_count = conn.execute("SELECT COUNT(*) FROM '<parquet_file>'").fetchone()[0]
CopyCount ==
    /\ pc = "copy_count"
    /\ \/ /\ Ok("count_rows", "", "copy_connect")
          /\ loc' = [loc EXCEPT !.row_count = Len(SourceRows(job))]
          /\ UNCHANGED <<db, tx, tempFile>>
       \/ Fail("count_rows", "", "IOException")

\* with psycopg.connect(self.pg_conn_str) as pg_conn
CopyConnect ==
    /\ pc = "copy_connect"
    /\ \/ /\ Ok("copy_connect", "", "copy_write")
          /\ tx' = [open |-> TRUE, failed |-> FALSE, view |-> db]
          /\ UNCHANGED <<db, tempFile, loc>>
       \/ Fail("copy_connect", "", "OperationalError")

\* with cur.copy("COPY <table> FROM STDIN WITH CSV") as copy: copy.write(csv_file.read())
\* mutant of CopyWrite: an error of the COPY is caught and logged, the method goes on
CopyWriteFailureSwallowed ==
    /\ pc = "copy_write"
    /\ \/ /\ Ok("copy_from_stdin", "", "copy_commit")
          /\ tx' = [tx EXCEPT !.view.rows = @ \o csv_import(tempFile.content)]
          /\ UNCHANGED <<db, tempFile, loc>>
       \/ /\ Continue(<< Event("copy_from_stdin", FALSE, "") >>, "copy_commit")
          /\ UNCHANGED <<db, tx, tempFile, loc>>

\* COPY takes the fields of a record by position and rejects a record with fewer
\* ("missing data for column") or more ("extra data after last expected column")
\* fields than the table has columns; an empty input has no record to reject
CopyWrite ==
    /\ pc = "copy_write"
    /\ LET fits == \/ Len(tempFile.columns) = Len(tx.view.columns)
                   \/ tempFile.content = <<>>
       IN  \/ /\ fits
              /\ Ok("copy_from_stdin", "", "copy_commit")
              /\ tx' = [tx EXCEPT !.view.rows = @ \o csv_import(tempFile.content),
                                  !.view.layouts = IF tempFile.content = <<>> THEN @
                                                   ELSE @ \cup {tempFile.columns}]
              /\ UNCHANGED <<db, tempFile, loc>>
           \/ /\ fits
              /\ Fail("copy_from_stdin", "", "DataError")
           \/ /\ ~fits
              /\ Fail("copy_from_stdin", "", "BadCopyFileFormat")

\* pg_conn.commit() and the end of the connection context
CopyCommit ==
    /\ pc = "copy_commit"
    /\ \/ /\ Ok("copy_commit", "", "copy_unlink")
          /\ db' = tx.view
          /\ tx' = NoTx
          /\ UNCHANGED <<tempFile, loc>>
       \/ Fail("copy_commit", "", "OperationalError")

\* Path(csv_path).unlink(), then the "Loaded <row_count> rows" log line
CopyUnlink ==
    /\ pc = "copy_unlink"
    /\ Continue(<< Event("unlink_tempfile", TRUE, ""), LogLoaded >>, "load_returned")
    /\ tempFile' = [tempFile EXCEPT !.exists = FALSE, !.content = <<>>, !.columns = <<>>]
    /\ loc' = [loc EXCEPT !.reported_total = loc.row_count]
    /\ UNCHANGED <<db, tx>>

-----------------------------------------------------------------------------
(* ParquetToPostgresLoader.load_data_batch_insert *)

\* mutant of fetch_batch: the limit is one row too long
fetch_batch_overlapping(rows, batch_size, offset) ==
    SubSeq(rows, offset + 1, Min(offset + batch_size + 1, Len(rows)))

\* SELECT * FROM '<parquet_file>' LIMIT <batch_size> OFFSET <offset>
fetch_batch(rows, batch_size, offset) ==
    SubSeq(rows, offset + 1, Min(offset + batch_size, Len(rows)))

\* total_rows = conn.execute("SELECT COUNT(*) FROM '<parquet_file>'").fetchone()[0]
BatchCount ==
    /\ pc = "batch_count"
    /\ \/ /\ Ok("count_rows", "", "batch_describe")
          /\ loc' = [loc EXCEPT !.total_rows = Len(SourceRows(job))]
          /\ UNCHANGED <<db, tx, tempFile>>
       \/ Fail("count_rows", "", "IOException")

\* columns = [row[0] for row in conn.execute("DESCRIBE SELECT * ...").fetchall()]
BatchDescribe ==
    /\ pc = "batch_describe"
    /\ \/ /\ Ok("describe_columns", "", "batch_connect")
          /\ loc' = [loc EXCEPT !.columns =
                        [i \in 1..Len(SchemaAtLoad(job)) |-> SchemaAtLoad(job)[i][1]]]
          /\ UNCHANGED <<db, tx, tempFile>>
       \/ Fail("describe_columns", "", "IOException")

\* with psycopg.connect(self.pg_conn_str) as pg_conn; the loop starts at offset 0
BatchConnect ==
    /\ pc = "batch_connect"
    /\ \/ /\ Ok("batch_connect", "", "batch_fetch")
          /\ tx' = [open |-> TRUE, failed |-> FALSE, view |-> db]
          /\ loc' = [loc EXCEPT !.offset = 0]
          /\ UNCHANGED <<db, tempFile>>
       \/ Fail("batch_connect", "", "OperationalError")

\* the head of `for offset in range(0, total_rows, batch_size)`: the next batch is
\* fetched; an exhausted range or an empty batch ends the loop, the connection
\* context ends and "Completed loading <total_rows> rows" is logged
BatchFetch ==
    /\ pc = "batch_fetch"
    /\ \/ /\ loc.offset >= loc.total_rows
          /\ Continue(<< LogLoaded >>, "load_returned")
          /\ tx' = NoTx
          /\ loc' = [loc EXCEPT !.reported_total = loc.total_rows]
          /\ UNCHANGED <<db, tempFile>>
       \/ /\ loc.offset < loc.total_rows
          /\ LET batch_data == fetch_batch(SourceRows(job), job.batch_size, loc.offset)
             IN  IF batch_data = <<>>
                 THEN /\ Continue(<< Event("fetch_batch", TRUE, ""), LogLoaded >>,
                                  "load_returned")
                      /\ tx' = NoTx
                      /\ loc' = [loc EXCEPT !.reported_total = loc.total_rows,
                                            !.batch_data = <<>>]
                 ELSE /\ Ok("fetch_batch", "", "batch_insert")
                      /\ tx' = tx
                      /\ loc' = [loc EXCEPT !.batch_data = batch_data]
          /\ UNCHANGED <<db, tempFile>>
       \/ /\ loc.offset < loc.total_rows
          /\ Fail("fetch_batch", "", "IOException")

\* cur.executemany("INSERT INTO <table> VALUES (%s, ...)", batch_data)
\* mutant of BatchInsert: the connection is in autocommit mode, the rows of a batch
\* are durable as soon as executemany has run
BatchInsertAutocommit ==
    /\ pc = "batch_insert"
    /\ \/ /\ Ok("executemany", "", "batch_commit")
          /\ tx' = [tx EXCEPT !.view.rows = @ \o loc.batch_data]
          /\ db' = [db EXCEPT !.rows = @ \o loc.batch_data]
          /\ UNCHANGED <<tempFile, loc>>
       \/ Fail("executemany", "", "DataError")

\* INSERT without a column list fills the table's columns from the left: PostgreSQL
\* takes len(columns) values for the first len(columns) columns, the others get
\* their default, and rejects more values than the table has columns
BatchInsert ==
    /\ pc = "batch_insert"
    /\ \/ /\ Len(loc.columns) <= Len(tx.view.columns)
          /\ Ok("executemany", "", "batch_commit")
          /\ tx' = [tx EXCEPT !.view.rows = @ \o loc.batch_data,
                              !.view.layouts = @ \cup {SelectStar(SchemaAtLoad(job))}]
          /\ UNCHANGED <<db, tempFile, loc>>
       \/ /\ Len(loc.columns) <= Len(tx.view.columns)
          /\ Fail("executemany", "", "DataError")
       \/ /\ Len(loc.columns) > Len(tx.view.columns)
          /\ Fail("executemany", "", "SyntaxError")

\* mutant of BatchCommit: the log line counts a full batch for every batch
BatchCommitFullBatches ==
    /\ pc = "batch_commit"
    /\ \/ /\ Ok("batch_commit", "", "batch_fetch")
          /\ db' = tx.view
          /\ loc' = [loc EXCEPT
                        !.progress = Append(@, [batch |-> (loc.offset \div job.batch_size) + 1,
                                                rows  |-> loc.offset + job.batch_size,
                                                total |-> loc.total_rows]),
                        !.batches = Append(@, loc.batch_data),
                        !.offset = @ + job.batch_size]
          /\ UNCHANGED <<tx, tempFile>>
       \/ Fail("batch_commit", "", "OperationalError")

\* pg_conn.commit(), the "Loaded batch ..." log line, and the step of the range
BatchCommit ==
    /\ pc = "batch_commit"
    /\ \/ /\ Ok("batch_commit", "", "batch_fetch")
          /\ db' = tx.view
          /\ loc' = [loc EXCEPT
                        !.progress = Append(@, [batch |-> (loc.offset \div job.batch_size) + 1,
                                                rows  |-> loc.offset + Len(loc.batch_data),
                                                total |-> loc.total_rows]),
                        !.batches = Append(@, loc.batch_data),
                        !.offset = @ + job.batch_size]
          /\ UNCHANGED <<tx, tempFile>>
       \/ Fail("batch_commit", "", "OperationalError")

-----------------------------------------------------------------------------
(* ParquetToPostgresLoader.load_parquet_to_postgres, step 3, and main() *)

\* mutant of LoadReturned: the index step runs whatever create_indexes says
LoadReturnedAlwaysIndexes ==
    /\ pc = "load_returned"
    /\ \/ /\ job.entry = "load_parquet_to_postgres"
          /\ Goto("idx_connect")
          /\ UNCHANGED <<db, tx, tempFile, loc>>
       \/ /\ job.entry # "load_parquet_to_postgres"
          /\ pc' = "Done"
          /\ exitStatus' = 0
          /\ UNCHANGED <<job, db, tx, tempFile, loc, events, error, pureVars>>

\* the strategy returned: `if create_indexes: self.create_suggested_indexes(...)`,
\* else the success log line and exit status 0
LoadReturned ==
    /\ pc = "load_returned"
    /\ \/ /\ job.entry = "load_parquet_to_postgres"
          /\ job.create_indexes
          /\ Goto("idx_connect")
          /\ UNCHANGED <<db, tx, tempFile, loc>>
       \/ /\ job.entry = "load_parquet_to_postgres"
          /\ ~job.create_indexes
          /\ pc' = "Done"
          /\ exitStatus' = 0
          /\ UNCHANGED <<job, db, tx, tempFile, loc, events, error, pureVars>>
       \/ /\ job.entry # "load_parquet_to_postgres"
          /\ pc' = "Done"
          /\ exitStatus' = 0
          /\ UNCHANGED <<job, db, tx, tempFile, loc, events, error, pureVars>>

-----------------------------------------------------------------------------
(* ParquetToPostgresLoader.create_suggested_indexes *)

\* the name of the index CREATE INDEX idx_<table>_<col.lower()> makes
index_name(table_name, col_name) == "idx_" \o table_name \o "_" \o Lower(col_name)

\* with psycopg.connect(self.pg_conn_str) as pg_conn
IdxConnect ==
    /\ pc = "idx_connect"
    /\ \/ /\ Ok("idx_connect", "", "idx_columns")
          /\ tx' = [open |-> TRUE, failed |-> FALSE, view |-> db]
          /\ UNCHANGED <<db, tempFile, loc>>
       \/ Fail("idx_connect", "", "OperationalError")

\* SELECT column_name, data_type FROM information_schema.columns WHERE table_name = %s
IdxColumns ==
    /\ pc = "idx_columns"
    /\ \/ /\ Ok("select_columns", "", "idx_loop")
          /\ loc' = [loc EXCEPT !.catalog = tx.view.columns, !.idx_pos = 1,
                                !.indexes_created = 0]
          /\ UNCHANGED <<db, tx, tempFile>>
       \/ Fail("select_columns", "", "OperationalError")

\* mutant of IdxColumn: the commit is inside the loop, after each CREATE INDEX that
\* succeeded
IdxColumnCommitsEach ==
    /\ pc = "idx_loop"
    /\ loc.idx_pos <= Len(loc.catalog)
    /\ LET col_name == loc.catalog[loc.idx_pos]
       IN  \/ /\ ~loader_index_candidate(col_name)
              /\ Goto("idx_loop")
              /\ loc' = [loc EXCEPT !.idx_pos = @ + 1]
              /\ UNCHANGED <<db, tx, tempFile>>
           \/ /\ loader_index_candidate(col_name)
              /\ Ok("create_index", col_name, "idx_loop")
              /\ tx' = [tx EXCEPT !.view.indexes = @ \cup {index_name(TableName, col_name)}]
              /\ db' = [db EXCEPT !.indexes = @ \cup {index_name(TableName, col_name)}]
              /\ loc' = [loc EXCEPT !.idx_pos = @ + 1, !.indexes_created = @ + 1,
                                    !.own_ok = @ \cup {col_name}]
              /\ UNCHANGED tempFile
           \/ /\ loader_index_candidate(col_name)
              /\ Continue(<< Event("create_index", FALSE, col_name) >>, "idx_loop")
              /\ loc' = [loc EXCEPT !.idx_pos = @ + 1]
              /\ UNCHANGED <<db, tx, tempFile>>

\* one iteration of `for col_name, data_type in columns`. A CREATE INDEX that fails
\* raises psycopg.Error, which is swallowed; PostgreSQL then rejects every later
\* statement of the same transaction (InFailedSqlTransaction, a psycopg.Error too)
IdxColumn ==
    /\ pc = "idx_loop"
    /\ loc.idx_pos <= Len(loc.catalog)
    /\ LET col_name == loc.catalog[loc.idx_pos]
       IN  \/ /\ ~loader_index_candidate(col_name)
              /\ Goto("idx_loop")
              /\ loc' = [loc EXCEPT !.idx_pos = @ + 1]
              /\ UNCHANGED <<db, tx, tempFile>>
           \/ /\ loader_index_candidate(col_name)
              /\ ~tx.failed
              /\ Ok("create_index", col_name, "idx_loop")
              /\ tx' = [tx EXCEPT !.view.indexes = @ \cup {index_name(TableName, col_name)}]
              /\ loc' = [loc EXCEPT !.idx_pos = @ + 1, !.indexes_created = @ + 1,
                                    !.own_ok = @ \cup {col_name}]
              /\ UNCHANGED <<db, tempFile>>
           \/ /\ loader_index_candidate(col_name)
              /\ ~tx.failed
              /\ Continue(<< Event("create_index", FALSE, col_name) >>, "idx_loop")
              /\ tx' = [tx EXCEPT !.failed = TRUE]
              /\ loc' = [loc EXCEPT !.idx_pos = @ + 1]
              /\ UNCHANGED <<db, tempFile>>
           \/ /\ loader_index_candidate(col_name)
              /\ tx.failed
              /\ Continue(<< Event("create_index", FALSE, col_name) >>, "idx_loop")
              /\ loc' = [loc EXCEPT !.idx_pos = @ + 1]
              /\ UNCHANGED <<db, tx, tempFile>>

\* pg_conn.commit() after the loop: COMMIT of a failed transaction rolls it back.
\* Then create_suggested_indexes and load_parquet_to_postgres return, exit status 0
IdxCommit ==
    /\ pc = "idx_loop"
    /\ loc.idx_pos > Len(loc.catalog)
    /\ \/ /\ events' = Append(events, Event("idx_commit", TRUE, ""))
          /\ db' = IF tx.failed THEN db ELSE tx.view
          /\ tx' = NoTx
          /\ pc' = "Done"
          /\ exitStatus' = 0
          /\ UNCHANGED <<job, tempFile, loc, error, pureVars>>
       \/ Fail("idx_commit", "", "OperationalError")

-----------------------------------------------------------------------------
(* The pure components, before any call of them *)

MapIdle ==
    /\ mapSystem = "none"
    /\ mapToken = ""
    /\ mapResult = [done |-> FALSE, value |-> ""]

NoGenCall ==
    [fn |-> "none", source_type |-> "", lowercase_columns |-> FALSE,
     columns |-> <<>>, dtypes |-> <<>>]

GenIdle ==
    /\ genCall = NoGenCall
    /\ genResult = [done |-> FALSE, sql |-> ""]

NoAdvCall == [fn |-> "none", columns |-> <<>>, lowercase_columns |-> FALSE]

AdvIdle ==
    /\ advCall = NoAdvCall
    /\ advResult = [done |-> FALSE, positions |-> {}, text |-> ""]

-----------------------------------------------------------------------------
(* The workflow as a state machine *)

Init ==
    /\ RunInit
    /\ MapIdle
    /\ GenIdle
    /\ AdvIdle

Next ==
    \/ DescribeSchema \/ DDLConnect \/ DDLDrop \/ DDLCreate \/ DDLCommit
    \/ Dispatch
    \/ DirectInstall \/ DirectCheck \/ DirectAttach \/ DirectInsert
    \/ CopyTempfile \/ CopyExport \/ CopyCount \/ CopyConnect \/ CopyWrite
    \/ CopyCommit \/ CopyUnlink
    \/ BatchCount \/ BatchDescribe \/ BatchConnect \/ BatchFetch \/ BatchInsert
    \/ BatchCommit
    \/ LoadReturned
    \/ IdxConnect \/ IdxColumns \/ IdxColumn \/ IdxCommit

Spec == Init /\ [][Next]_vars

-----------------------------------------------------------------------------
(* TypeMapper as a state machine: one call per behaviour *)

TypesInit ==
    /\ mapSystem \in MapSystems
    /\ mapToken \in TokensOf(mapSystem)
    /\ mapResult = [done |-> FALSE, value |-> ""]
    /\ GenIdle
    /\ AdvIdle
    /\ RunIdle

Return(value) ==
    /\ mapResult' = [done |-> TRUE, value |-> value]
    /\ UNCHANGED <<mapSystem, mapToken, genVars, advVars, runVars>>

MapDuckDB ==
    /\ mapSystem = "duckdb" /\ ~mapResult.done
    /\ Return(map_duckdb_type(mapToken))

MapArrow ==
    /\ mapSystem = "arrow" /\ ~mapResult.done
    /\ Return(map_arrow_type(mapToken))

MapPandas ==
    /\ mapSystem = "pandas" /\ ~mapResult.done
    /\ Return(map_pandas_type(mapToken))

MapLoader ==
    /\ mapSystem = "loader" /\ ~mapResult.done
    /\ Return(loader_map_type(mapToken))

MapSimple ==
    /\ mapSystem = "simple" /\ ~mapResult.done
    /\ Return(simple_map_type(mapToken))

TypesNext == MapDuckDB \/ MapArrow \/ MapPandas \/ MapLoader \/ MapSimple

SpecTypes == TypesInit /\ [][TypesNext]_vars

-----------------------------------------------------------------------------
(* DDLGenerator as a state machine: one call per behaviour *)

MaxCols == 3

GenColumns == {"VendorID", "tpep_pickup_datetime", "fare_amount", " Airport_fee "}

GenDuckDBTypes == {"INTEGER", "TIMESTAMP", "DOUBLE"}
GenArrowTypes  == {"int32", "timestamp[us, tz=UTC]", "double"}
GenPandasTypes == {"int64", "datetime64[ns]", "object"}

\* table schemas of at most MaxCols columns with distinct names
Schemas(types) ==
    { sch \in UNION { [1..n -> GenColumns \X types] : n \in 0..MaxCols } :
        \A i, j \in DOMAIN sch : i # j => sch[i][1] # sch[j][1] }

GenCallOf(fn, source_type, lowercase_columns, sch) ==
    [fn |-> fn, source_type |-> source_type, lowercase_columns |-> lowercase_columns,
     columns |-> [i \in DOMAIN sch |-> sch[i][1]],
     dtypes |-> [i \in DOMAIN sch |-> sch[i][2]]]

GenInit ==
    /\ genCall \in
         { GenCallOf("generate_create_table", "duckdb", lc, sch) :
             lc \in BOOLEAN, sch \in Schemas(GenDuckDBTypes) }
         \cup
         { GenCallOf("generate_create_table", "arrow", lc, sch) :
             lc \in BOOLEAN, sch \in Schemas(GenArrowTypes) }
         \cup
         { GenCallOf("from_pandas_dataframe", "pandas", lc, sch) :
             lc \in BOOLEAN, sch \in Schemas(GenPandasTypes) }
         \cup
         { GenCallOf(fn, "duckdb", FALSE, sch) :
             fn \in {"duckdb_relation_to_postgres_sql", "create_table_from_parquet"},
             sch \in Schemas(GenDuckDBTypes) }
    /\ genResult = [done |-> FALSE, sql |-> ""]
    /\ MapIdle
    /\ AdvIdle
    /\ RunIdle

ReturnSql(sql) ==
    /\ genResult' = [done |-> TRUE, sql |-> sql]
    /\ UNCHANGED <<genCall, mapVars, advVars, runVars>>

\* ParquetToPostgres.from_duckdb_relation / from_parquet_file
GenConverter ==
    /\ genCall.fn = "generate_create_table" /\ ~genResult.done
    /\ ReturnSql(generate_create_table(genCall.columns, genCall.dtypes, TableName,
                                       genCall.source_type, genCall.lowercase_columns))

GenPandas ==
    /\ genCall.fn = "from_pandas_dataframe" /\ ~genResult.done
    /\ ReturnSql(from_pandas_dataframe(genCall.columns, genCall.dtypes, TableName,
                                       genCall.lowercase_columns))

GenSimple ==
    /\ genCall.fn = "duckdb_relation_to_postgres_sql" /\ ~genResult.done
    /\ ReturnSql(duckdb_relation_to_postgres_sql(genCall.columns, genCall.dtypes, TableName))

GenLoader ==
    /\ genCall.fn = "create_table_from_parquet" /\ ~genResult.done
    /\ ReturnSql(loader_create_sql(
                    [i \in DOMAIN genCall.columns |-> <<genCall.columns[i], genCall.dtypes[i]>>],
                    TableName))

GenNext == GenConverter \/ GenPandas \/ GenSimple \/ GenLoader

SpecDDL == GenInit /\ [][GenNext]_vars

-----------------------------------------------------------------------------
(* IndexAdvisor as a state machine: one call per behaviour *)

MaxAdvCols == 2

ColumnNames ==
    {"tpep_pickup_datetime", "fare_amount", "id", "ID", "VendorID", "created_at",
     "updated_at", "zip_code", "api_key", "payment_type", "width", "name",
     "order_timestamp", "Created", "runtime", "birthday"}

AdvColumnLists ==
    UNION { [1..n -> ColumnNames] : n \in 0..MaxAdvCols }
        \cup { <<"tpep_pickup_datetime", "fare_amount", "id">> }

AdvInit ==
    /\ advCall \in [fn : {"generate_sample_indexes", "create_suggested_indexes"},
                    columns : AdvColumnLists, lowercase_columns : {FALSE}]
    /\ advResult = [done |-> FALSE, positions |-> {}, text |-> ""]
    /\ MapIdle
    /\ GenIdle
    /\ RunIdle

\* ParquetToPostgres.generate_sample_indexes
AdviseConverter ==
    /\ advCall.fn = "generate_sample_indexes" /\ ~advResult.done
    /\ LET indexes == sample_indexes(advCall.columns, TableName, advCall.lowercase_columns)
       IN  advResult' =
             [done |-> TRUE,
              positions |-> {indexes[i].position : i \in DOMAIN indexes},
              text |-> generate_sample_indexes(advCall.columns, TableName,
                                               advCall.lowercase_columns)]
    /\ UNCHANGED <<advCall, mapVars, genVars, runVars>>

\* the column loop of ParquetToPostgresLoader.create_suggested_indexes, every
\* CREATE INDEX succeeding
AdviseLoader ==
    /\ advCall.fn = "create_suggested_indexes" /\ ~advResult.done
    /\ LET positions == {i \in DOMAIN advCall.columns :
                            loader_index_candidate(advCall.columns[i])}
       IN  advResult' =
             [done |-> TRUE,
              positions |-> positions,
              text |-> Join("\n", [i \in DOMAIN advCall.columns |->
                          IF i \in positions
                          THEN index_statement(TableName, advCall.columns[i])
                          ELSE ""])]
    /\ UNCHANGED <<advCall, mapVars, genVars, runVars>>

AdvNext == AdviseConverter \/ AdviseLoader

SpecAdvisor == AdvInit /\ [][AdvNext]_vars

-----------------------------------------------------------------------------
(* Properties of the create-and-load workflow *)

Workflow == job.entry = "load_parquet_to_postgres"

\* the step of the workflow an external call belongs to:
\* 1 schema read, 2 DDL execution, 3 data transfer, 4 index creation
Phase(op) ==
    CASE op = "describe" -> 1
      [] op \in {"ddl_connect", "drop_table", "create_table", "ddl_commit"} -> 2
      [] op \in {"idx_connect", "select_columns", "create_index", "idx_commit"} -> 4
      [] OTHER -> 3

\* the event with which a step has finished successfully
Completes(e, phase) ==
    CASE phase = 1 -> e = Event("describe", TRUE, "")
      [] phase = 2 -> e = Event("ddl_commit", TRUE, "")
      [] phase = 3 -> e = LogLoaded
      [] OTHER     -> FALSE

Happened(op) == \E i \in DOMAIN events : events[i].op = op

\* the selected strategy returned normally
LoadCompleted == Happened("log_loaded")

\* C1: in every run of load_parquet_to_postgres the calls happen in the order schema
\* read, DDL execution, data transfer, index creation: a call of a later step is
\* never followed by a call of an earlier one, and a step starts only after the
\* step before it has finished successfully, every call of the earlier steps
\* having succeeded.
C1_StepsInOrder ==
    Workflow =>
        \A j \in DOMAIN events :
            LET phase == Phase(events[j].op)
            IN  /\ \A i \in 1..(j - 1) :
                       /\ Phase(events[i].op) <= phase
                       /\ Phase(events[i].op) < phase => events[i].ok
                /\ phase > 1 => \E i \in 1..(j - 1) : Completes(events[i], phase - 1)

\* a run that went through all four steps, creating an index at the end
C1_Witness ==
    /\ Workflow /\ pc = "Done"
    /\ \E i \in DOMAIN events : events[i] = Event("create_index", TRUE, "zip_code")
    /\ Happened("executemany") /\ Happened("create_table") /\ Happened("describe")

\* C2: when load_data_copy has ended, normally or by an exception, the temporary
\* file it created no longer exists.
C2_TempFileRemoved ==
    (pc \in {"load_returned", "idx_connect", "idx_columns", "idx_loop", "Done", "Failed"}
        /\ tempFile.created)
    => ~tempFile.exists

\* C3: once the selected strategy has returned normally, the target table holds
\* every source row exactly once and nothing else.
C3_RowsTransferredOnce ==
    LoadCompleted =>
        /\ db.exists
        /\ Len(db.rows) = job.parquet_rows
        /\ \A r \in 1..job.parquet_rows :
               Cardinality({i \in DOMAIN db.rows : db.rows[i] = r}) = 1

\* a chunked load of several batches that returned
C3_Witness ==
    /\ LoadCompleted
    /\ job.method = "batch"
    /\ Len(loc.batches) >= 2
    /\ job.parquet_rows = MaxRows

CeilDiv(n, b) == (n + b - 1) \div b

\* C4: load_data_batch_insert with batch size B >= 1 on N rows commits the batches
\* in offset order, the i-th being rows (i-1)*B+1 .. min(i*B, N), so B rows each
\* except the last; the log line after the i-th commit carries batch index i,
\* min(i*B, N) rows so far and total N; when the method returns, ceil(N/B) batches
\* have been committed and the reported total is N.
C4_BatchesAndProgress ==
    job.method = "batch" =>
        LET B == job.batch_size
            N == job.parquet_rows
            k == Len(loc.progress)
        IN  /\ Len(loc.batches) = k
            /\ k <= CeilDiv(N, B)
            /\ \A i \in 1..k :
                   /\ loc.progress[i] = [batch |-> i, rows |-> Min(i * B, N), total |-> N]
                   /\ loc.batches[i] = [r \in 1..(Min(i * B, N) - (i - 1) * B) |-> (i - 1) * B + r]
                   /\ Len(loc.batches[i]) = IF i < CeilDiv(N, B) THEN B
                                            ELSE N - (CeilDiv(N, B) - 1) * B
            /\ LoadCompleted => (k = CeilDiv(N, B) /\ loc.reported_total = N)

\* batch size 2 on 5 rows: batches of 2, 2 and 1 rows, total 5 (the shape of
\* batch size 10000 on 25000 rows)
C4_Witness ==
    /\ LoadCompleted
    /\ job.method = "batch" /\ job.batch_size = 2 /\ job.parquet_rows = 5
    /\ loc.batches = << <<1, 2>>, <<3, 4>>, <<5>> >>
    /\ loc.progress = << [batch |-> 1, rows |-> 2, total |-> 5],
                         [batch |-> 2, rows |-> 4, total |-> 5],
                         [batch |-> 3, rows |-> 5, total |-> 5] >>
    /\ loc.reported_total = 5

\* C5: with drop_if_exists false and the target table already there, the run never
\* gets past the DDL step: CREATE TABLE, when reached, fails with DuplicateTable
\* and the run ends in failure; the existing table stays as it was and no call of
\* the data transfer or of the index step is ever made.
C5_ExistingTableKept ==
    (Workflow /\ ~job.drop_if_exists /\ job.table_existed) =>
        /\ db = LegacyTable
        /\ pc \in {"describe", "ddl_connect", "ddl_drop", "ddl_create", "Failed"}
        /\ \A i \in DOMAIN events : Phase(events[i].op) <= 2
        /\ ~Happened("drop_table")
        /\ Happened("create_table") =>
              /\ events[Len(events)] = Event("create_table", FALSE, "")
              /\ pc = "Failed" /\ error = "DuplicateTable" /\ exitStatus = 1

\* the run that failed on the existing table
C5_Witness ==
    /\ Workflow /\ ~job.drop_if_exists /\ job.table_existed
    /\ pc = "Failed" /\ error = "DuplicateTable"
    /\ Happened("create_table")

\* the columns of the table for which the index step executes a CREATE INDEX
IndexCandidates == {c \in {db.columns[i] : i \in DOMAIN db.columns} : loader_index_candidate(c)}

\* C6: when the run reaches Done through the index step, every suggested index was
\* attempted, every index whose own CREATE INDEX succeeded exists on the table,
\* and the exit status is 0, whichever CREATE INDEX statements failed.
C6_IndexesBestEffort ==
    (Workflow /\ job.create_indexes /\ pc = "Done") =>
        /\ \A c \in IndexCandidates :
               \E i \in DOMAIN events : events[i].op = "create_index" /\ events[i].arg = c
        /\ \A c \in loc.own_ok : index_name(TableName, c) \in db.indexes
        /\ exitStatus = 0

-----------------------------------------------------------------------------
(* Properties of IndexAdvisor *)

\* the rule of the specification: the lowercased name contains a temporal or an
\* identifier pattern, and the column is not the one named id
SuggestionExpected(col) ==
    /\ AnyPatternIn(Lower(col),
                    {"datetime", "timestamp", "date", "time", "created", "updated",
                     "id", "key", "code"})
    /\ Lower(col) # "id"

\* C7: generate_sample_indexes and the column loop of create_suggested_indexes make
\* an index statement for a column exactly when its lowercased name contains one
\* of datetime, timestamp, date, time, created, updated, id, key, code and the
\* column is not named id; over [tpep_pickup_datetime, fare_amount, id] the only
\* statement is the one for tpep_pickup_datetime.
C7_SuggestionRule ==
    advResult.done =>
        /\ \A i \in DOMAIN advCall.columns :
               (i \in advResult.positions) <=> SuggestionExpected(advCall.columns[i])
        /\ advCall.columns = <<"tpep_pickup_datetime", "fare_amount", "id">>
               => advResult.positions = {1}

-----------------------------------------------------------------------------
(* Properties of TypeMapper *)

\* the base type of a DuckDB type token, in upper case
DuckDBBase(token) == SplitHead(Upper(token), "(")

\* C8: wherever the program maps a DuckDB type token (the converter, the simple
\* converter and the loader's DDL generation), a token whose base type is DECIMAL,
\* NUMERIC, CHAR or VARCHAR in any letter case and that has a parenthesized
\* parameter suffix is mapped to a type that ends with that exact suffix.
C8_SuffixRetained ==
    (/\ mapResult.done
     /\ mapSystem \in {"duckdb", "simple", "loader"}
     /\ DuckDBBase(mapToken) \in {"DECIMAL", "NUMERIC", "CHAR", "VARCHAR"}
     /\ Contains(mapToken, "("))
    => EndsWith(mapResult.value, FromFirst(mapToken, "("))

\* the base type of a token as its type system writes it
BaseType(system, token) ==
    IF system = "arrow" THEN SplitHead(token, "[") ELSE DuckDBBase(token)

\* C9: a token whose base type is not in the mapping table of its type system is
\* returned as it was passed, character by character.
C9_UnknownPassedThrough ==
    (/\ mapResult.done
     /\ mapSystem \in {"duckdb", "arrow", "simple", "loader"}
     /\ BaseType(mapSystem, mapToken) \notin DOMAIN TableOf(mapSystem))
    => mapResult.value = mapToken

-----------------------------------------------------------------------------
(* Properties of DDLGenerator *)

RECURSIVE SplitLines(_)
\* the lines of a text
SplitLines(text) ==
    IF Find(text, "\n") = 0 THEN << text >>
    ELSE << SplitHead(text, "\n") >>
             \o SplitLines(SubSeq(text, Find(text, "\n") + 1, Len(text)))

\* the column definition lines of a CREATE TABLE text: what stands between its
\* first and its last line, blank lines aside
ColumnLines(sql) ==
    LET lines == SplitLines(sql)
    IN  SelectSeq(SubSeq(lines, 2, Len(lines) - 1), LAMBDA line : line # "")

\* the name a generator writes for a source column
ExpectedName(call, i) ==
    IF call.fn \in {"generate_create_table", "from_pandas_dataframe"}
    THEN clean_column_name(call.columns[i], call.lowercase_columns)
    ELSE call.columns[i]

\* the TypeMapper result for a source column
ExpectedType(call, i) ==
    CASE call.fn = "from_pandas_dataframe"            -> map_pandas_type(call.dtypes[i])
      [] call.fn = "duckdb_relation_to_postgres_sql"  -> simple_map_type(call.dtypes[i])
      [] call.fn = "create_table_from_parquet"        -> loader_map_type(call.dtypes[i])
      [] call.source_type = "arrow"                   -> map_arrow_type(call.dtypes[i])
      [] OTHER                                        -> map_duckdb_type(call.dtypes[i])

\* C10: the CREATE TABLE text generated for a schema of n columns has exactly n
\* column definition lines between "CREATE TABLE <name> (" and ");", the i-th being
\* the normalized name of the i-th column followed by the mapped type of the i-th
\* source type (and a comma, except on the last); for [(VendorID, INTEGER),
\* (tpep_pickup_datetime, TIMESTAMP), (fare_amount, DOUBLE)] these are the three
\* lines with INTEGER, TIMESTAMP and DOUBLE PRECISION, in that order.
C10_ColumnLinesInOrder ==
    genResult.done =>
        LET n     == Len(genCall.columns)
            lines == SplitLines(genResult.sql)
            cols  == ColumnLines(genResult.sql)
        IN  /\ lines[1] = "CREATE TABLE " \o TableName \o " ("
            /\ lines[Len(lines)] = ");"
            /\ Len(cols) = n
            /\ \A i \in 1..n :
                   cols[i] = "    " \o ExpectedName(genCall, i) \o " " \o ExpectedType(genCall, i)
                                 \o (IF i < n THEN "," ELSE "")
            /\ (/\ genCall.columns = <<"VendorID", "tpep_pickup_datetime", "fare_amount">>
                /\ genCall.dtypes = <<"INTEGER", "TIMESTAMP", "DOUBLE">>
                /\ ~genCall.lowercase_columns)
               => cols = << "    VendorID INTEGER,",
                            "    tpep_pickup_datetime TIMESTAMP,",
                            "    fare_amount DOUBLE PRECISION" >>

\* the three-column scenario, generated by the converter
C10_Witness ==
    /\ genResult.done
    /\ genCall.fn = "generate_create_table" /\ genCall.source_type = "duckdb"
    /\ genCall.columns = <<"VendorID", "tpep_pickup_datetime", "fare_amount">>
    /\ genCall.dtypes = <<"INTEGER", "TIMESTAMP", "DOUBLE">>
    /\ ColumnLines(genResult.sql) = << "    VendorID INTEGER,",
                                       "    tpep_pickup_datetime TIMESTAMP,",
                                       "    fare_amount DOUBLE PRECISION" >>

-----------------------------------------------------------------------------
(* Properties of the data transfer *)

\* the columns of the source differ, in number or in order, from the columns the
\* DDL step built the table from
SourceColumnsChanged == SelectStar(SchemaAtLoad(job)) # SelectStar(job.parquet_schema)

\* C11: the rows a strategy writes have the columns of the DDL, in number and in
\* order: no row of the target table, committed or pending, was filled from a
\* source column list other than the table's own, and a transfer of at least one
\* row whose source columns differ from those of the DDL does not complete.
C11_ColumnsAligned ==
    Workflow =>
        /\ \A l \in db.layouts \cup tx.view.layouts : l = NewTable(job.parquet_schema).columns
                                                       \/ l = LegacyTable.columns
        /\ (SourceColumnsChanged /\ job.parquet_rows > 0) => ~LoadCompleted

\* the connection string has the form postgresql://...
NativeScheme(conn_str) == StartsWith(conn_str, "postgresql://")

\* C12: load_data_direct_duckdb on a connection string that does not have the form
\* postgresql://... never attaches the target and never inserts: neither call is
\* made, no row reaches the table, and once the scheme has been looked at the run
\* has failed with the ValueError.
C12_DirectFailsFast ==
    (Workflow /\ job.method = "direct" /\ ~NativeScheme(job.pg_conn_str)) =>
        /\ ~Happened("attach") /\ ~Happened("insert_select")
        /\ db.rows = <<>> \/ db = LegacyTable
        /\ pc \notin {"direct_attach", "direct_insert", "load_returned", "Done"}
        /\ (Happened("install_extension") /\ pc # "direct_check") =>
               (pc = "Failed" /\ exitStatus = 1
                   /\ error \in {"ValueError", "IOException"})

\* the DDL step has been committed
DDLApplied == \E i \in DOMAIN events : events[i] = Event("ddl_commit", TRUE, "")

IsPrefix(s, t) == Len(s) <= Len(t) /\ s = SubSeq(t, 1, Len(s))

\* C13: a call of the data transfer that fails ends the run: the run is Failed
\* with exit status 1; and in a run that failed after the DDL step and before the
\* strategy returned, the table of the DDL step is still there with its columns,
\* holding none or the first of the source rows, and no call of the index step
\* was made.
C13_LoadFailureLeavesTable ==
    Workflow =>
        /\ (\E i \in DOMAIN events : Phase(events[i].op) = 3 /\ ~events[i].ok) =>
               (pc = "Failed" /\ exitStatus = 1 /\ error # "")
        /\ (pc = "Failed" /\ DDLApplied /\ ~LoadCompleted) =>
               /\ exitStatus = 1
               /\ db.exists
               /\ db.columns = NewTable(job.parquet_schema).columns
               /\ IsPrefix(db.rows, SourceRows(job))
               /\ db.indexes = {}
               /\ \A i \in DOMAIN events : Phase(events[i].op) <= 3

\* a COPY that failed
C13_Witness ==
    /\ Workflow /\ pc = "Failed" /\ DDLApplied
    /\ events[Len(events)] = Event("copy_from_stdin", FALSE, "")
    /\ db.exists /\ job.parquet_rows > 0

\* the last call the run made
LastOp == IF events = <<>> THEN "" ELSE events[Len(events)].op

\* C14: during and after load_data_batch_insert the committed rows of the table
\* are exactly the rows of the batches committed so far, in order; while batch
\* k+1 is being inserted or committed, and after a failure of its fetch, insert
\* or commit, the table holds the k*B rows of the first k batches and no other.
C14_BatchesCommittedAtomically ==
    (job.method = "batch" /\ Happened("batch_connect")) =>
        LET B == job.batch_size
            N == job.parquet_rows
            k == Len(loc.batches)
        IN  /\ db.rows = SubSeq(SourceRows(job), 1, Min(k * B, N))
            /\ (\/ pc \in {"batch_insert", "batch_commit"}
                \/ pc = "Failed" /\ LastOp \in {"fetch_batch", "executemany", "batch_commit"})
               => (k * B < N /\ db.rows = [r \in 1..(k * B) |-> r])

\* batch size 2 on 5 rows, the third insert fails: rows 1..4 stay
C14_Witness ==
    /\ job.method = "batch" /\ job.batch_size = 2 /\ job.parquet_rows = 5
    /\ pc = "Failed" /\ events[Len(events)] = Event("executemany", FALSE, "")
    /\ Len(loc.batches) = 2
    /\ db.rows = <<1, 2, 3, 4>>

\* C15: when the DESCRIBE of the source fails, the run is Failed with exit status
\* 1 and nothing else was done: DESCRIBE is the only call made, the target is as
\* it was before the run (no DROP, no CREATE, no row, no index), no transaction is
\* open and no temporary file was created.
C15_SchemaFailureNoEffect ==
    (Workflow /\ \E i \in DOMAIN events : events[i] = Event("describe", FALSE, "")) =>
        /\ pc = "Failed" /\ exitStatus = 1
        /\ events = << Event("describe", FALSE, "") >>
        /\ db = InitialDb(job)
        /\ tx = NoTx
        /\ ~tempFile.created

\* the source is unreadable, the table of an earlier run was to be replaced
C15_Witness ==
    /\ Workflow /\ pc = "Failed"
    /\ events = << Event("describe", FALSE, "") >>
    /\ job.table_existed /\ job.drop_if_exists
    /\ db = LegacyTable

\* the calls each load_data_* method makes
StrategyOps(method) ==
    CASE method = "direct" -> {"install_extension", "attach", "insert_select", "log_loaded"}
      [] method = "copy"   -> {"create_tempfile", "export_csv", "count_rows", "copy_connect",
                               "copy_from_stdin", "copy_commit", "unlink_tempfile",
                               "log_loaded"}
      [] method = "batch"  -> {"count_rows", "describe_columns", "batch_connect",
                               "fetch_batch", "executemany", "batch_commit", "log_loaded"}
      [] OTHER             -> {}

Count(op) == Cardinality({i \in DOMAIN events : events[i].op = op})

\* C16: the only calls of the data transfer are those of the method the job names;
\* no call is made twice, except the per-batch calls, made at most once per batch,
\* and CREATE INDEX, made at most once per column; and no call follows a failed
\* call, except in the index step, where a failed CREATE INDEX is passed over.
C16_NoFallbackNoRetry ==
    /\ \A i \in DOMAIN events :
           /\ Phase(events[i].op) = 3 => events[i].op \in StrategyOps(job.method)
           /\ Count(events[i].op) <= 
                  (IF events[i].op \in {"fetch_batch", "executemany", "batch_commit"}
                   THEN CeilDiv(job.parquet_rows, job.batch_size)
                   ELSE IF events[i].op = "create_index"
                   THEN Cardinality({j \in DOMAIN db.columns :
                                        loader_index_candidate(db.columns[j])})
                   ELSE 1)
           /\ (i < Len(events) /\ ~events[i].ok) => events[i].op = "create_index"
    /\ \A i, j \in DOMAIN events :
           (i # j /\ events[i].op = "create_index" /\ events[j].op = "create_index")
               => events[i].arg # events[j].arg

\* the direct method failed at ATTACH and the run ended there
C16_Witness ==
    /\ Workflow /\ job.method = "direct"
    /\ pc = "Failed" /\ events[Len(events)] = Event("attach", FALSE, "")

\* C17: with create_indexes false the index step is never entered: no catalog
\* query and no CREATE INDEX is made, the run is Done as soon as the strategy has
\* returned, with exit status 0, and the table has the indexes it had after the
\* DDL step, none.
C17_IndexStepSkipped ==
    (Workflow /\ ~job.create_indexes) =>
        /\ \A i \in DOMAIN events : Phase(events[i].op) <= 3
        /\ pc \notin {"idx_connect", "idx_columns", "idx_loop"}
        /\ LoadCompleted => (pc \in {"load_returned", "Done"} /\ db.indexes = {})
        /\ pc = "Done" => (LoadCompleted /\ exitStatus = 0)

\* a table with index candidates was loaded and got no index
C17_Witness ==
    /\ Workflow /\ ~job.create_indexes /\ pc = "Done"
    /\ db.rows # <<>> /\ IndexCandidates # {}
    /\ db.indexes = {}

-----------------------------------------------------------------------------
(* Properties of the type mapping: time zones *)

\* the tokens of each source type system that denote a timestamp
TimestampLike(system, token) ==
    CASE system = "duckdb" -> StartsWith(Upper(token), "TIMESTAMP")
      [] system = "arrow"  -> StartsWith(token, "timestamp")
      [] system = "pandas" -> StartsWith(token, "datetime64")
      [] OTHER             -> FALSE

\* the token says the timestamps carry a time zone: TIMESTAMPTZ and TIMESTAMP WITH
\* TIME ZONE in DuckDB, tz=<zone> in Arrow, datetime64[<unit>, <zone>] in pandas
HasTimezone(system, token) ==
    CASE system = "duckdb" -> Upper(token) \in {"TIMESTAMPTZ", "TIMESTAMP WITH TIME ZONE"}
      [] system = "arrow"  -> Contains(token, "tz=")
      [] system = "pandas" -> Contains(token, ", ")
      [] OTHER             -> FALSE

\* C18: for a timestamp token of DuckDB, Arrow or pandas the mapped type is
\* TIMESTAMPTZ or TIMESTAMP WITH TIME ZONE when the token carries a time zone, and
\* TIMESTAMP when it does not.
C18_TimezoneAwareness ==
    (mapResult.done /\ TimestampLike(mapSystem, mapToken)) =>
        IF HasTimezone(mapSystem, mapToken)
        THEN mapResult.value \in {"TIMESTAMPTZ", "TIMESTAMP WITH TIME ZONE"}
        ELSE mapResult.value = "TIMESTAMP"

-----------------------------------------------------------------------------
(* Properties of the order of calls *)

\* a successful call op was made before the i-th call
Earlier(op, i) == \E j \in 1..(i - 1) : events[j] = Event(op, TRUE, "")

\* C19, as stated: in load_data_copy the count query on the source has been made
\* when the export to the temporary file is made.
C19_CountBeforeExport ==
    (Workflow /\ job.method = "copy") =>
        \A i \in DOMAIN events : events[i].op = "export_csv" => Earlier("count_rows", i)

\* C19, amended: in load_data_copy the export to the temporary file comes first,
\* the count query on the source second, the connection to the target and its
\* COPY third.
C19_ExportThenCountThenCopy ==
    (Workflow /\ job.method = "copy") =>
        \A i \in DOMAIN events :
            /\ events[i].op = "count_rows" =>
                   (Earlier("export_csv", i) /\ ~Earlier("copy_connect", i))
            /\ events[i].op \in {"copy_connect", "copy_from_stdin"} =>
                   (Earlier("export_csv", i) /\ Earlier("count_rows", i))

\* a copy of 2 rows that went through
C19_Witness ==
    /\ Workflow /\ job.method = "copy" /\ LoadCompleted
    /\ job.parquet_rows = 2 /\ db.rows = <<1, 2>>
    /\ Happened("export_csv") /\ Happened("count_rows") /\ Happened("copy_from_stdin")

\* C20: load_parquet_to_postgres with a method other than direct, copy and batch
\* runs the DDL step as for any method and fails right after it with the
\* ValueError: by then the table of an earlier run has been dropped if
\* drop_if_exists is set and the new, empty table is committed; no call of a data
\* transfer or of the index step is ever made.
C20_UnknownMethodRejectedAfterDDL ==
    (Workflow /\ job.method \notin {"direct", "copy", "batch"}) =>
        /\ \A i \in DOMAIN events : Phase(events[i].op) <= 2
        /\ pc \in {"describe", "ddl_connect", "ddl_drop", "ddl_create", "ddl_commit",
                   "dispatch", "Failed"}
        /\ error = "ValueError" <=> (pc = "Failed" /\ DDLApplied)
        /\ error = "ValueError" =>
               /\ exitStatus = 1
               /\ db = NewTable(job.parquet_schema)
               /\ job.drop_if_exists <=> Happened("drop_table")
               /\ events[Len(events)] = Event("ddl_commit", TRUE, "")

\* method "stream" on a table of an earlier run, which is replaced and left empty
C20_Witness ==
    /\ Workflow /\ job.method = "stream" /\ error = "ValueError"
    /\ job.table_existed /\ job.drop_if_exists
    /\ db = NewTable(job.parquet_schema) /\ db.rows = <<>>

-----------------------------------------------------------------------------
(* Properties of the index step: one transaction *)

\* the indexes create_suggested_indexes asks for on the table
SuggestedIndexes == {index_name(TableName, c) : c \in IndexCandidates}

\* C21: create_suggested_indexes connects once and commits once, as its last
\* call, after a CREATE INDEX has been sent for every candidate column; until that
\* commit the table has no committed index, and after it the table has all the
\* indexes of the run or none of them.
C21_IndexesOneTransaction ==
    (Workflow /\ job.create_indexes /\ DDLApplied) =>
        /\ Count("idx_connect") <= 1 /\ Count("idx_commit") <= 1
        /\ ~(\E i \in DOMAIN events : events[i] = Event("idx_commit", TRUE, "")) =>
               db.indexes = {}
        /\ Happened("idx_commit") =>
               /\ LastOp = "idx_commit"
               /\ \A c \in IndexCandidates :
                      \E i \in DOMAIN events :
                          events[i].op = "create_index" /\ events[i].arg = c
        /\ db.indexes \in {{}, SuggestedIndexes}
        /\ pc = "idx_loop" =>
               (tx.open /\ tx.view.indexes =
                   {index_name(TableName, events[i].arg) :
                       i \in {j \in DOMAIN events : events[j].op = "create_index"
                                                        /\ events[j].ok}})

\* two indexes, created in the loop, committed together at its end
C21_Witness ==
    /\ Workflow /\ job.create_indexes /\ pc = "Done"
    /\ Cardinality(SuggestedIndexes) = 2
    /\ db.indexes = SuggestedIndexes
    /\ Count("create_index") = 2 /\ Count("idx_commit") = 1

=============================================================================
